---- MODULE Spec2Model ----
(***************************************************************************)
(* AI Resume Analyzer: the Streamlit main flow (app.py), the PDF text      *)
(* extractor (src/pdf_loader.py) and the Gemini call (src/gemini_engine.py) *)
(* as one state machine.  One run of main() is one click of "Analyze".     *)
(***************************************************************************)
EXTENDS Integers, Sequences, FiniteSets

\* ------------------------------------------------------------------ bounds
MaxPages == 2
MaxLines == 2
MaxClicks == 2

\* ----------------------------------------------------------------- strings
\* A Python value that may be None is None or Str(..).  The characters of a
\* string are a sequence of runs [ch, n]: n copies of the character ch, where
\* "a" stands for any non-whitespace character.
None == [type |-> "NoneType"]
Str(s) == [type |-> "str", s |-> s]
Whitespace == {" ", "\n"}
Run(ch, n) == <<[ch |-> ch, n |-> n]>>

RECURSIVE RunsLen(_)
RunsLen(s) == IF s = <<>> THEN 0 ELSE Head(s).n + RunsLen(Tail(s))

\* len(x)
StrLen(x) == RunsLen(x.s)

RECURSIVE LStrip(_)
LStrip(s) ==
    IF s = <<>> THEN s
    ELSE IF Head(s).ch \in Whitespace THEN LStrip(Tail(s)) ELSE s

RECURSIVE RStrip(_)
RStrip(s) ==
    IF s = <<>> THEN s
    ELSE IF s[Len(s)].ch \in Whitespace THEN RStrip(SubSeq(s, 1, Len(s) - 1)) ELSE s

\* Strip as it would be had the count been taken of the unstripped text.
StripNothing(x) == x

\* x.strip()
Strip(x) == Str(RStrip(LStrip(x.s)))

\* ------------------------------------------------------------- pdf_loader
min_expected_chars == 100

\* What page.extract_text() can give for one page: None, "", or a string.
PageTexts ==
    { None,
      Str(<<>>),
      Str(Run(" ", 3)),
      Str(Run("a", 40)),
      Str(Run("a", 60)),
      Str(Run("a", 99)),
      Str(Run(" ", 1) \o Run("a", 100)),
      Str(Run(" ", 60) \o Run("a", 50) \o Run("\n", 1)) }

\* Python truthiness of page_text
Truthy(page_text) == page_text # None /\ page_text.s # <<>>

\* What str(e) of an exception can contain: the keywords the handlers look for.
Keywords == {"API_KEY", "invalid", "quota", "network", "connection", "429"}
ErrorMessages == SUBSET Keywords

\* The uploaded file: a PDF with pages, a file pdfplumber rejects with
\* PDFSyntaxError, or one on which read/open/extract_text raises another Exception.
PageSeqs == UNION { [1..n -> PageTexts] : n \in 0..MaxPages }
UploadedFiles ==
    { [kind |-> "pdf", pages |-> p, exc |-> {}] : p \in PageSeqs }
    \cup { [kind |-> "syntax_error", pages |-> <<>>, exc |-> {}] }
    \cup { [kind |-> "exception", pages |-> <<>>, exc |-> e] : e \in {{}, {"invalid"}} }

RECURSIVE Join(_)
\* "\n\n".join(extracted_text)
Join(extracted_text) ==
    IF extracted_text = <<>> THEN Str(<<>>)
    ELSE IF Len(extracted_text) = 1 THEN extracted_text[1]
    ELSE Str(Join(SubSeq(extracted_text, 1, Len(extracted_text) - 1)).s
                 \o Run("\n", 2) \o extracted_text[Len(extracted_text)].s)

RECURSIVE PageLoop(_, _, _, _)
\* for page_num, page in enumerate(pdf.pages, 1): the state after the loop
PageLoop(pages, page_num, extracted_text, total_chars) ==
    IF page_num > Len(pages)
    THEN [extracted_text |-> extracted_text, total_chars |-> total_chars]
    ELSE LET page_text == pages[page_num] IN
         IF Truthy(page_text)
         THEN PageLoop(pages, page_num + 1,
                       Append(extracted_text, page_text),
                       total_chars + StrLen(Strip(page_text)))
         ELSE PageLoop(pages, page_num + 1, extracted_text, total_chars)

\* The tuple (success, message, extracted_text) the extractor returns.  A
\* message is its kind and the values formatted into it.
Extraction(success, message, text) ==
    [success |-> success, message |-> message, text |-> text]
Message(kind, chars, pages, detail) ==
    [kind |-> kind, chars |-> chars, pages |-> pages, detail |-> detail]

ScanCheck(pages) ==
    LET loop == PageLoop(pages, 1, <<>>, 0)
        full_text == Join(loop.extracted_text)
    IN  IF loop.total_chars < min_expected_chars
        THEN Extraction(FALSE, Message("scanned", loop.total_chars, 0, {}), None)
        ELSE Extraction(TRUE,
                 Message("extracted", loop.total_chars, Len(pages), {}), full_text)

\* EmptyPdf as it would be without the len(pdf.pages) == 0 check.
EmptyPdfUnchecked(pages) == ScanCheck(pages)

EmptyPdf(pages) ==
    Extraction(FALSE, Message("empty", 0, 0, {}), None)

extract_text_from_pdf(uploaded_file) ==
    CASE uploaded_file.kind = "syntax_error" ->
            Extraction(FALSE, Message("invalid_pdf", 0, 0, {}), None)
      [] uploaded_file.kind = "exception" ->
            Extraction(FALSE, Message("processing_error", 0, 0, uploaded_file.exc), None)
      [] OTHER ->
            IF Len(uploaded_file.pages) = 0
            THEN EmptyPdf(uploaded_file.pages)
            ELSE ScanCheck(uploaded_file.pages)

\* ---------------------------------------------------------- gemini_engine
\* The model analyze_resume builds its GenerativeModel from.
ModelName == "gemini-1.5-flash"

\* A raised exception e, with what str(e) contains.
Exc(error_message) == [type |-> "Exception", msg |-> error_message]

\* One line of a reply: whether it contains 'Score:', whether it contains
\* '/100', and what re.search(r'(\d+)\s*/\s*100', line) gives: <<>> for no
\* match, <<n>> for int(match.group(1)) = n.
Line(colon, slash100, match) ==
    [colon |-> colon, slash100 |-> slash100, match |-> match]
BlankLine == Line(FALSE, FALSE, <<>>)
Lines ==
    { Line(TRUE, TRUE, <<85>>),      \* "**Score: 85/100**"
      Line(TRUE, TRUE, <<0>>),       \* "Score: 0/100"
      Line(FALSE, FALSE, <<72>>),    \* "72 / 100"
      Line(TRUE, FALSE, <<>>),       \* "Score: high"
      Line(FALSE, FALSE, <<>>) }     \* "### KEY STRENGTHS"

\* A reply text is its lines; <<>> is the empty string.
Texts == UNION { [1..n -> Lines] : n \in 0..MaxLines }

\* What model.generate_content returns: the number of response.parts and what
\* reading response.text gives, a string or an exception.
Response(parts, text) == [type |-> "response", parts |-> parts, text |-> text]
Responses ==
    { Response(0, Exc({})) }
    \cup { Response(1, Str(t)) : t \in Texts }
    \cup { Response(1, Exc(e)) : e \in ErrorMessages }

\* The dictionary analyze_resume returns.
Result(success, analysis, error) ==
    [success |-> success, analysis |-> analysis, error |-> error]

\* An error string: which message it is, and the error_message formatted into
\* it (<<>> when none is).
ErrorText(kind, detail) == [type |-> "str", kind |-> kind, detail |-> detail]

\* Blocked as it would be with "success": True left in the blocked branch.
BlockedAsSuccess == Result(TRUE, None, ErrorText("blocked", <<>>))

Blocked == Result(FALSE, None, ErrorText("blocked", <<>>))

\* ErrorResult as it would be with a generic message in the last branch.
ErrorResultGeneric(error_message) ==
    IF "API_KEY" \in error_message \/ "invalid" \in error_message
    THEN Result(FALSE, None, ErrorText("invalid_api_key", <<>>))
    ELSE IF "quota" \in error_message
    THEN Result(FALSE, None, ErrorText("quota_exceeded", <<>>))
    ELSE IF "network" \in error_message \/ "connection" \in error_message
    THEN Result(FALSE, None, ErrorText("connection_error", <<>>))
    ELSE Result(FALSE, None, ErrorText("analysis_failed", <<>>))

\* The except clause: the result for an exception whose str() is error_message.
ErrorResult(error_message) ==
    IF "API_KEY" \in error_message \/ "invalid" \in error_message
    THEN Result(FALSE, None, ErrorText("invalid_api_key", <<>>))
    ELSE IF "quota" \in error_message
    THEN Result(FALSE, None, ErrorText("quota_exceeded", <<>>))
    ELSE IF "network" \in error_message \/ "connection" \in error_message
    THEN Result(FALSE, None, ErrorText("connection_error", <<>>))
    ELSE Result(FALSE, None, ErrorText("analysis_failed", <<error_message>>))

\* -------------------------------------------------------------------- app
ApiKeys == {"", "your_api_key_here", "AIza-key"}

\* analysis.split('\n')
Split(analysis) == IF analysis.s = <<>> THEN <<BlankLine>> ELSE analysis.s

RECURSIVE ScoreLoop(_, _)
\* for line in analysis.split('\n'): the score at the end of the loop,
\* <<>> for None
ScoreLoop(lines, i) ==
    IF i > Len(lines) THEN <<>>
    ELSE IF (lines[i].colon \/ lines[i].slash100) /\ lines[i].match # <<>>
    THEN lines[i].match
    ELSE ScoreLoop(lines, i + 1)

\* ScoreShown as it would be with `if score is not None:`.
ScoreShownIfNotNone(score) == score # <<>>

\* `if score:` is false for None and for 0
ScoreShown(score) == score # <<>> /\ score[1] # 0

VARIABLES
    pc,             \* where the run of main() is
    clicks,         \* clicks of "Analyze Resume" so far
    api_key,        \* what render_sidebar returned
    uploaded_file,  \* what render_upload_section returned
    extraction,     \* (success, message, extracted_text), None before
    model,          \* the GenerativeModel analyze_resume built, None before
    response,       \* what generate_content returned, None before
    exc,            \* the exception the try block raised, None if none
    result,         \* what analyze_resume returned, None before
    calls,          \* the models generate_content was called on, in order
    extract_calls,  \* calls of extract_text_from_pdf in this run
    shown,          \* what the run has put on the page, in order
    steps           \* the steps main() has taken in this run, in order

vars == <<pc, clicks, api_key, uploaded_file, extraction, model, response, exc,
          result, calls, extract_calls, shown, steps>>

Init ==
    /\ pc = "idle"
    /\ clicks = 0
    /\ api_key = ""
    /\ uploaded_file = [kind |-> "pdf", pages |-> <<>>, exc |-> {}]
    /\ extraction = None
    /\ model = None
    /\ response = None
    /\ exc = None
    /\ result = None
    /\ calls = <<>>
    /\ extract_calls = 0
    /\ shown = <<>>
    /\ steps = <<>>

\* What the page shows: a kind and its body.
Shown(kind, body) == [kind |-> kind, body |-> body]

\* The user clicks "Analyze Resume": Streamlit runs main() from the top, and
\* nothing of the previous run is kept.
ClickAnalyze ==
    /\ pc \in {"idle", "done", "raised"}
    /\ clicks < MaxClicks
    /\ clicks' = clicks + 1
    /\ api_key' = ""
    /\ uploaded_file' = [kind |-> "pdf", pages |-> <<>>, exc |-> {}]
    /\ extraction' = None
    /\ model' = None
    /\ response' = None
    /\ exc' = None
    /\ result' = None
    /\ calls' = <<>>
    /\ extract_calls' = 0
    /\ shown' = <<>>
    /\ steps' = <<>>
    /\ pc' = "sidebar"

\* api_key = render_sidebar()
render_sidebar ==
    /\ pc = "sidebar"
    /\ api_key' \in ApiKeys
    /\ pc' = "upload"
    /\ UNCHANGED steps
    /\ UNCHANGED <<clicks, uploaded_file, extraction, model, response, exc,
                   result, calls, extract_calls, shown>>

\* uploaded_file = render_upload_section(); if uploaded_file: .. if analyze_button:
render_upload_section ==
    /\ pc = "upload"
    /\ uploaded_file' \in UploadedFiles
    /\ pc' = "validate_key"
    /\ UNCHANGED steps
    /\ UNCHANGED <<clicks, api_key, extraction, model, response, exc, result,
                   calls, extract_calls, shown>>

\* ValidateKey as it would be with only `if not api_key:`.
ValidateKeyNoPlaceholder ==
    /\ pc = "validate_key"
    /\ IF api_key = ""
       THEN /\ shown' = Append(shown, Shown("key_error", None))
            /\ pc' = "done"
       ELSE /\ shown' = shown
            /\ pc' = "extract"
    /\ steps' = Append(steps, "validate_key")
    /\ UNCHANGED <<clicks, api_key, uploaded_file, extraction, model, response,
                   exc, result, calls, extract_calls>>

\* if not api_key or api_key == "your_api_key_here": st.error(..); return
ValidateKey ==
    /\ pc = "validate_key"
    /\ IF api_key = "" \/ api_key = "your_api_key_here"
       THEN /\ shown' = Append(shown, Shown("key_error", None))
            /\ pc' = "done"
       ELSE /\ shown' = shown
            /\ pc' = "extract"
    /\ steps' = Append(steps, "validate_key")
    /\ UNCHANGED <<clicks, api_key, uploaded_file, extraction, model, response,
                   exc, result, calls, extract_calls>>

\* success, message, extracted_text = extract_text_from_pdf(uploaded_file)
ExtractText ==
    /\ pc = "extract"
    /\ extraction' = extract_text_from_pdf(uploaded_file)
    /\ extract_calls' = extract_calls + 1
    /\ pc' = "extracted"
    /\ steps' = Append(steps, "extract_text_from_pdf")
    /\ UNCHANGED <<clicks, api_key, uploaded_file, model, response, exc, result,
                   calls, shown>>

\* ShowExtraction as it would be without the return after the error message.
ShowExtractionNoReturn ==
    /\ pc = "extracted"
    /\ IF ~extraction.success
       THEN shown' = Append(shown, Shown("error-message", extraction.message))
       ELSE shown' = shown \o <<Shown("success-message", extraction.message),
                               Shown("text_area", extraction.text)>>
    /\ steps' = Append(steps, "analyze_resume")
    /\ pc' = "configure"
    /\ UNCHANGED <<clicks, api_key, uploaded_file, extraction, model, response,
                   exc, result, calls, extract_calls>>

\* if not success: show the message and return; else show the message and
\* the extracted text and go on to analyze_resume
ShowExtraction ==
    /\ pc = "extracted"
    /\ IF ~extraction.success
       THEN /\ shown' = Append(shown, Shown("error-message", extraction.message))
            /\ steps' = steps
            /\ pc' = "done"
       ELSE /\ shown' = shown \o <<Shown("success-message", extraction.message),
                                   Shown("text_area", extraction.text)>>
            /\ steps' = Append(steps, "analyze_resume")
            /\ pc' = "configure"
    /\ UNCHANGED <<clicks, api_key, uploaded_file, extraction, model, response,
                   exc, result, calls, extract_calls>>

\* A statement of the try block raises: control goes to the except clause.
Raise(e) ==
    /\ exc' = Exc(e)
    /\ pc' = "except"

\* Configure as it would be with genai.configure called before the try block.
ConfigureOutsideTry ==
    /\ pc = "configure"
    /\ \/ pc' = "create_model" /\ exc' = exc
       \/ \E e \in ErrorMessages : exc' = Exc(e) /\ pc' = "raised"
    /\ UNCHANGED steps
    /\ UNCHANGED <<clicks, api_key, uploaded_file, extraction, model, response,
                   result, calls, extract_calls, shown>>

\* genai.configure(api_key=api_key)
Configure ==
    /\ pc = "configure"
    /\ \/ pc' = "create_model" /\ exc' = exc
       \/ \E e \in ErrorMessages : Raise(e)
    /\ UNCHANGED steps
    /\ UNCHANGED <<clicks, api_key, uploaded_file, extraction, model, response,
                   result, calls, extract_calls, shown>>

\* model = genai.GenerativeModel('gemini-1.5-flash')
CreateModel ==
    /\ pc = "create_model"
    /\ \/ pc' = "prompt" /\ model' = Str(ModelName) /\ exc' = exc
       \/ model' = model /\ \E e \in ErrorMessages : Raise(e)
    /\ UNCHANGED steps
    /\ UNCHANGED <<clicks, api_key, uploaded_file, extraction, response,
                   result, calls, extract_calls, shown>>

\* prompt = RESUME_ANALYSIS_PROMPT.format(resume_text=resume_text)
FormatPrompt ==
    /\ pc = "prompt"
    /\ \/ pc' = "generate" /\ exc' = exc
       \/ \E e \in ErrorMessages : Raise(e)
    /\ UNCHANGED steps
    /\ UNCHANGED <<clicks, api_key, uploaded_file, extraction, model, response,
                   result, calls, extract_calls, shown>>

\* response = model.generate_content(prompt, generation_config=..)
GenerateContent ==
    /\ pc = "generate"
    /\ calls' = Append(calls, model.s)
    /\ \/ response' \in Responses /\ pc' = "check_parts" /\ exc' = exc
       \/ response' = response /\ \E e \in ErrorMessages : Raise(e)
    /\ UNCHANGED steps
    /\ UNCHANGED <<clicks, api_key, uploaded_file, extraction, model, result,
                   extract_calls, shown>>

\* CheckParts as it would be with the test inverted (`if response.parts:`).
CheckPartsInverted ==
    /\ pc = "check_parts"
    /\ IF response.parts # 0
       THEN result' = Blocked /\ pc' = "analyzed"
       ELSE result' = result /\ pc' = "read_text"
    /\ UNCHANGED steps
    /\ UNCHANGED <<clicks, api_key, uploaded_file, extraction, model, response,
                   exc, calls, extract_calls, shown>>

\* if not response.parts: return the "blocked" result
CheckParts ==
    /\ pc = "check_parts"
    /\ IF response.parts = 0
       THEN result' = Blocked /\ pc' = "analyzed"
       ELSE result' = result /\ pc' = "read_text"
    /\ UNCHANGED steps
    /\ UNCHANGED <<clicks, api_key, uploaded_file, extraction, model, response,
                   exc, calls, extract_calls, shown>>

\* return {"success": True, "analysis": response.text, "error": None}
ReturnSuccess ==
    /\ pc = "read_text"
    /\ IF response.text.type = "Exception"
       THEN Raise(response.text.msg) /\ result' = result
       ELSE /\ result' = Result(TRUE, response.text, None)
            /\ pc' = "analyzed"
            /\ exc' = exc
    /\ UNCHANGED steps
    /\ UNCHANGED <<clicks, api_key, uploaded_file, extraction, model, response,
                   calls, extract_calls, shown>>

\* HandleException as it would be with a quota error of generate_content sent
\* back to the call, up to 3 calls.
HandleExceptionRetry ==
    /\ pc = "except"
    /\ IF "quota" \in exc.msg /\ response = None /\ calls # <<>> /\ Len(calls) < 3
       THEN result' = result /\ pc' = "generate"
       ELSE result' = ErrorResult(exc.msg) /\ pc' = "analyzed"
    /\ UNCHANGED steps
    /\ UNCHANGED <<clicks, api_key, uploaded_file, extraction, model, response,
                   exc, calls, extract_calls, shown>>

\* except Exception as e: return the result for str(e)
HandleException ==
    /\ pc = "except"
    /\ result' = ErrorResult(exc.msg)
    /\ pc' = "analyzed"
    /\ UNCHANGED steps
    /\ UNCHANGED <<clicks, api_key, uploaded_file, extraction, model, response,
                   exc, calls, extract_calls, shown>>

\* if result["success"]: render_analysis_results(result["analysis"])
render_analysis_results ==
    /\ pc = "analyzed"
    /\ result.success
    /\ LET analysis == result.analysis
           score == ScoreLoop(Split(analysis), 1)
       IN  shown' = shown
                \o (IF ScoreShown(score) THEN <<Shown("score", score)>> ELSE <<>>)
                \o <<Shown("analysis", analysis), Shown("download", analysis)>>
    /\ pc' = "done"
    /\ UNCHANGED steps
    /\ UNCHANGED <<clicks, api_key, uploaded_file, extraction, model, response,
                   exc, result, calls, extract_calls>>

\* else: show result["error"]
ShowAnalysisError ==
    /\ pc = "analyzed"
    /\ ~result.success
    /\ shown' = Append(shown, Shown("error-message", result.error))
    /\ pc' = "done"
    /\ UNCHANGED steps
    /\ UNCHANGED <<clicks, api_key, uploaded_file, extraction, model, response,
                   exc, result, calls, extract_calls>>

Next ==
    \/ ClickAnalyze
    \/ render_sidebar
    \/ render_upload_section
    \/ ValidateKey
    \/ ExtractText
    \/ ShowExtraction
    \/ Configure
    \/ CreateModel
    \/ FormatPrompt
    \/ GenerateContent
    \/ CheckParts
    \/ ReturnSuccess
    \/ HandleException
    \/ render_analysis_results
    \/ ShowAnalysisError

Spec == Init /\ [][Next]_vars

TypeOK ==
    /\ pc \in {"idle", "sidebar", "upload", "validate_key", "extract", "extracted", "configure",
               "create_model", "prompt", "generate", "check_parts", "read_text",
               "except", "analyzed", "done", "raised"}
    /\ clicks \in 0..MaxClicks
    /\ api_key \in ApiKeys

\* ------------------------------------------------------------------ claims
\* analyze_resume has returned (main holds its result, or has shown it).
Returned == pc \in {"analyzed", "done"} /\ result # None

\* generate_content returned a response with parts whose text can be read.
GotContent ==
    /\ response # None
    /\ response.parts > 0
    /\ response.text.type = "str"

\* generate_content itself raised (no response, one call made, an exception).
CallRaised == exc # None /\ response = None /\ calls # <<>>

\* The spec's rate-limit signature: HTTP 429 / resource exhausted / quota.
RateLimited(error_message) == "429" \in error_message \/ "quota" \in error_message

C4_NeverRaises ==
    /\ pc # "raised"
    /\ (exc # None /\ pc # "except")
           => /\ Returned
              /\ ~result.success
              /\ result.error # None

C4_Witness ==
    /\ pc = "done"
    /\ exc # None
    /\ calls = <<>>
    /\ ~result.success
    /\ result.error # None

C9_NoPartialSuccess ==
    result # None
        => \/ /\ result.success
              /\ result.analysis # None
              /\ result.analysis.s # <<>>
              /\ result.error = None
           \/ /\ ~result.success
              /\ result.error # None
              /\ result.analysis = None

\* The characters of a page's text left when leading and trailing
\* whitespace is removed: those from its first to its last non-whitespace run.
RECURSIVE SumRuns(_, _, _)
SumRuns(s, lo, hi) == IF lo > hi THEN 0 ELSE s[lo].n + SumRuns(s, lo + 1, hi)

CoreChars(page_text) ==
    IF page_text = None THEN 0
    ELSE LET s == page_text.s
             solid == {i \in 1..Len(s) : s[i].ch \notin Whitespace}
         IN  IF solid = {} THEN 0
             ELSE SumRuns(s, CHOOSE i \in solid : \A j \in solid : i <= j,
                             CHOOSE i \in solid : \A j \in solid : i >= j)

\* All the characters of a page's text.
RawChars(page_text) ==
    IF page_text = None THEN 0 ELSE SumRuns(page_text.s, 1, Len(page_text.s))

RECURSIVE TotalOver(_, _, _)
TotalOver(Count(_), pages, i) ==
    IF i > Len(pages) THEN 0 ELSE Count(pages[i]) + TotalOver(Count, pages, i + 1)

StrippedTotal(pages) == TotalOver(CoreChars, pages, 1)
RawTotal(pages) == TotalOver(RawChars, pages, 1)

\* The pages that have text, in page order, and their texts with a blank
\* line between each two.
HasText(page_text) == RawChars(page_text) > 0
RECURSIVE BlankLineJoined(_)
BlankLineJoined(texts) ==
    IF texts = <<>> THEN <<>>
    ELSE IF Len(texts) = 1 THEN texts[1].s
    ELSE texts[1].s \o <<[ch |-> "\n", n |-> 2]>> \o BlankLineJoined(Tail(texts))

\* extract_text_from_pdf has returned for a file pdfplumber could read.
ExtractedPdf == extraction # None /\ uploaded_file.kind = "pdf"

\* C6 as stated: every document yielding fewer than 100 extractable
\* characters, one with zero pages included, gets ok=false with the
\* scanned-document message and no text.
C6_FewCharsIsScanned ==
    (ExtractedPdf /\ StrippedTotal(uploaded_file.pages) < 100)
        => /\ ~extraction.success
           /\ extraction.message.kind = "scanned"
           /\ extraction.text = None

\* C6 amended: every document with at least one page whose page texts, each
\* stripped of leading and trailing whitespace, total fewer than 100 characters
\* (pages of only whitespace or without text included) gets ok=false with the
\* scanned-document message, which quotes that total, and no text; a document
\* with zero pages gets ok=false with the "appears to be empty" message and
\* no text.
C6_FewCharsIsScannedOrEmpty ==
    ExtractedPdf
        => LET pages == uploaded_file.pages IN
           /\ Len(pages) = 0
                  => /\ ~extraction.success
                     /\ extraction.message.kind = "empty"
                     /\ extraction.text = None
           /\ (Len(pages) > 0 /\ StrippedTotal(pages) < 100)
                  => /\ ~extraction.success
                     /\ extraction.message.kind = "scanned"
                     /\ extraction.message.chars = StrippedTotal(pages)
                     /\ extraction.text = None

C6_Witness ==
    /\ pc = "done"
    /\ ExtractedPdf
    /\ Len(uploaded_file.pages) > 0
    /\ \E i \in 1..Len(uploaded_file.pages) :
           /\ HasText(uploaded_file.pages[i])
           /\ CoreChars(uploaded_file.pages[i]) = 0
    /\ StrippedTotal(uploaded_file.pages) < 100
    /\ extraction.message.kind = "scanned"

\* C7 as stated: every readable document with at least 100 characters of
\* page text gets ok=true and the page texts joined by blank lines, and the
\* count compared against 100 is the character count of the returned pages.
C7_ThresholdIsTextLength ==
    (ExtractedPdf /\ RawTotal(uploaded_file.pages) >= 100)
        => /\ extraction.success
           /\ extraction.text =
                  Str(BlankLineJoined(SelectSeq(uploaded_file.pages, HasText)))
           /\ extraction.message.chars = RawTotal(uploaded_file.pages)

\* C7 amended: every readable document whose page texts, each stripped of
\* leading and trailing whitespace, total at least 100 characters gets ok=true
\* and a text equal to the page texts that are not empty, unstripped and in
\* page order, joined by a blank line; the count compared against 100 and
\* reported is the stripped total, which is at most, and can be less than,
\* the character count of the returned pages.
C7_StrippedThreshold ==
    (ExtractedPdf /\ StrippedTotal(uploaded_file.pages) >= 100)
        => /\ extraction.success
           /\ extraction.text =
                  Str(BlankLineJoined(SelectSeq(uploaded_file.pages, HasText)))
           /\ extraction.message.kind = "extracted"
           /\ extraction.message.chars = StrippedTotal(uploaded_file.pages)
           /\ extraction.message.chars <= RawTotal(uploaded_file.pages)

C7_Witness ==
    /\ ExtractedPdf
    /\ extraction.success
    /\ Len(SelectSeq(uploaded_file.pages, HasText)) = 2
    /\ extraction.message.chars < RawTotal(uploaded_file.pages)

\* C8: an extraction that returned ok=false ends the run with the extractor's
\* message shown, after one call of the extractor and without any model call;
\* a model call happens only after an extraction that returned ok=true in the
\* same run.
C8_IngestionErrorShortCircuits ==
    /\ extract_calls <= 1
    /\ (extraction # None /\ ~extraction.success)
           => /\ pc \in {"extracted", "done"}
              /\ extract_calls = 1
              /\ calls = <<>>
              /\ model = None
              /\ result = None
              /\ pc = "done"
                     => shown = <<Shown("error-message", extraction.message)>>
    /\ (calls # <<>> \/ pc \in {"configure", "create_model", "prompt", "generate"})
           => /\ extraction # None
              /\ extraction.success
              /\ extract_calls = 1

C8_Witness ==
    /\ pc = "done"
    /\ extraction # None
    /\ ~extraction.success
    /\ extraction.message.kind \in {"scanned", "empty", "invalid_pdf", "processing_error"}
    /\ shown = <<Shown("error-message", extraction.message)>>
    /\ calls = <<>>

\* No line of the reply gives a score of the form N/100.
NoScore(analysis) == \A i \in 1..Len(analysis.s) : analysis.s[i].match = <<>>

RunOrder == <<"validate_key", "extract_text_from_pdf", "analyze_resume">>

\* The key the check at the top of the Analyze branch rejects.
KeyRejected == api_key = "" \/ api_key = "your_api_key_here"

\* C12: in every run, the steps taken are a prefix of credential check,
\* extraction, model call, so analyze_resume is issued at most once per click
\* and only after the other two; with an empty or placeholder API key the run
\* stops at the credential check: no extraction is started and no model call
\* is issued.
C12_OneCallAfterKeyAndExtraction ==
    /\ Len(steps) <= Len(RunOrder)
    /\ steps = SubSeq(RunOrder, 1, Len(steps))
    /\ Len(calls) <= 1
    /\ extract_calls = Cardinality({i \in 1..Len(steps) :
                                       steps[i] = "extract_text_from_pdf"})
    /\ (calls # <<>> \/ result # None) => steps = RunOrder
    /\ KeyRejected
           => /\ Len(steps) <= 1
              /\ extract_calls = 0
              /\ extraction = None
              /\ calls = <<>>
              /\ result = None
              /\ pc = "done" => shown = <<Shown("key_error", None)>>

C12_Witness ==
    /\ pc = "done"
    /\ clicks = 2
    /\ steps = RunOrder
    /\ calls = <<ModelName>>
    /\ result # None

====
